---- MODULE Spec2Model ----
(***************************************************************************)
(* Model of src/h.py: the multi-stock backtest page.  One run of the       *)
(* script is a walk of pc from "start" to "done"; a Streamlit rerun starts *)
(* the script again from the top.                                          *)
(*                                                                         *)
(* Prices and returns are exact rationals <<n, d>> (d > 0, lowest terms).  *)
(* The float specials are <<0,0>> (NaN), <<1,0>> (+inf), <<-1,0>> (-inf).  *)
(* A Series is a function from a set of dates to values, read in date      *)
(* order; a DataFrame is a function from dates to [symbol -> value].       *)
(*                                                                         *)
(* out is what the page shows, in order: the st.error and st.warning       *)
(* messages of the run, the two charts, the two total-return lines and the *)
(* monthly table.  The st.write previews of intermediate frames and the    *)
(* font warning of get_font_properties are not recorded.  fetched is the   *)
(* history of yf.download calls: <<symbol, kind of answer>>.               *)
(* The basket symbols are distinct, so the pivot_table branch for repeated *)
(* (Date, Symbol) pairs is modelled by Pivot but not taken.                *)
(***************************************************************************)
EXTENDS Integers, Sequences, FiniteSets

VARIABLES pc, start_date, end_date, i, portfolio_data_list, columns,
          close_prices, returns, portfolio_returns, benchmark_data,
          benchmark_returns, portfolio_cumulative_returns,
          benchmark_cumulative_returns, out, fetched

vars == <<pc, start_date, end_date, i, portfolio_data_list, columns,
          close_prices, returns, portfolio_returns, benchmark_data,
          benchmark_returns, portfolio_cumulative_returns,
          benchmark_cumulative_returns, out, fetched>>

(* ---- bounds ---- *)
NumDates == 3
MaxPrice == 2
NumSymbols == 2

Dates == 1..NumDates
Prices == 1..MaxPrice
symbols_list == [k \in 1..NumSymbols |-> k]
benchmark_symbol == 0
NoSymbol == 0 - 1

(* ---- float arithmetic, exact ---- *)
NaN == <<0, 0>>
Zero == <<0, 1>>
One == <<1, 1>>
Hundred == <<100, 1>>

Abs(n) == IF n < 0 THEN 0 - n ELSE n

RECURSIVE GCD(_, _)
GCD(a, b) == IF b = 0 THEN a ELSE GCD(b, a % b)

Norm(n, d) ==
  LET s == IF d < 0 THEN 0 - 1 ELSE 1
      g == GCD(Abs(n), Abs(d))
  IN  <<(s * n) \div g, (s * d) \div g>>

IsNaN(x) == x = NaN
IsFinite(x) == x[2] # 0

Add(x, y) ==
  IF IsNaN(x) \/ IsNaN(y) THEN NaN
  ELSE IF ~IsFinite(x) THEN x
  ELSE IF ~IsFinite(y) THEN y
  ELSE Norm(x[1] * y[2] + y[1] * x[2], x[2] * y[2])

Sub(x, y) == Add(x, <<0 - y[1], y[2]>>)

Sign(n) == IF n < 0 THEN 0 - 1 ELSE IF n > 0 THEN 1 ELSE 0

Mul(x, y) ==
  IF IsNaN(x) \/ IsNaN(y) THEN NaN
  ELSE IF ~IsFinite(x) \/ ~IsFinite(y)
       THEN <<Sign(x[1]) * Sign(y[1]), 0>>
  ELSE Norm(x[1] * y[1], x[2] * y[2])

Div(x, y) ==
  IF IsNaN(x) \/ IsNaN(y) THEN NaN
  ELSE IF ~IsFinite(y) THEN (IF IsFinite(x) THEN Zero ELSE NaN)
  ELSE IF ~IsFinite(x) THEN <<x[1] * (IF y[1] < 0 THEN 0 - 1 ELSE 1), 0>>
  ELSE IF y[1] = 0 THEN <<Sign(x[1]), 0>>
  ELSE Norm(x[1] * y[2], x[2] * y[1])

(* ---- index helpers ---- *)
MaxOf(S) == CHOOSE m \in S : \A e \in S : e <= m
MinOf(S) == CHOOSE m \in S : \A e \in S : m <= e
Before(S, d) == {e \in S : e < d}

(* ---- pandas operations ---- *)

\* DataFrame.pivot(index='Date', columns='Symbol', values='Close'): one row
\* per date that occurs in any frame, one column per symbol; a cell with no
\* source row is NaN.  With repeated (Date, Symbol) pairs pivot_table keeps
\* the last one.  The float conversion of to_numeric is applied to each cell.
Pivot(list) ==
  LET idx == UNION {DOMAIN list[k].Close : k \in DOMAIN list}
      cols == {list[k].Symbol : k \in DOMAIN list}
      Src(s, d) == {k \in DOMAIN list : list[k].Symbol = s /\ d \in DOMAIN list[k].Close}
  IN  [d \in idx |-> [s \in cols |->
         IF Src(s, d) = {} THEN NaN
         ELSE <<list[MaxOf(Src(s, d))].Close[d], 1>>]]

RECURSIVE FfillAt(_, _, _)
FfillAt(t, s, d) ==
  IF ~IsNaN(t[d][s]) THEN t[d][s]
  ELSE IF Before(DOMAIN t, d) = {} THEN NaN
  ELSE FfillAt(t, s, MaxOf(Before(DOMAIN t, d)))

\* DataFrame.ffill()
Ffill(t) == [d \in DOMAIN t |-> [s \in DOMAIN t[d] |-> FfillAt(t, s, d)]]

DropNaSkipped(t) == t

\* DataFrame.dropna(): drop every row holding a NaN
DropNa(t) ==
  LET keep == {d \in DOMAIN t : \A s \in DOMAIN t[d] : ~IsNaN(t[d][s])}
  IN  [d \in keep |-> t[d]]

\* Series.pct_change(): x / x.shift(1) - 1, NaN in the first row
PctChangeSeries(x) ==
  [d \in DOMAIN x |->
     IF Before(DOMAIN x, d) = {} THEN NaN
     ELSE Sub(Div(x[d], x[MaxOf(Before(DOMAIN x, d))]), One)]

\* DataFrame.pct_change(): column by column
PctChangeFrame(t) ==
  [d \in DOMAIN t |-> [s \in DOMAIN t[d] |->
     IF Before(DOMAIN t, d) = {} THEN NaN
     ELSE Sub(Div(t[d][s], t[MaxOf(Before(DOMAIN t, d))][s]), One)]]

RECURSIVE SumOver(_, _)
SumOver(row, S) ==
  IF S = {} THEN Zero
  ELSE LET s == CHOOSE e \in S : TRUE
       IN  Add(row[s], SumOver(row, S \ {s}))

\* DataFrame.mean(axis=1): mean of the non-NaN cells of each row
MeanAxis1(t) ==
  [d \in DOMAIN t |->
     LET ok == {s \in DOMAIN t[d] : ~IsNaN(t[d][s])}
     IN  IF ok = {} THEN NaN
         ELSE Div(SumOver(t[d], ok), <<Cardinality(ok), 1>>)]

\* Series.loc[index]
Loc(x, idx) == [d \in idx |-> x[d]]

FillNaOne(x) == [d \in DOMAIN x |-> IF IsNaN(x[d]) THEN One ELSE x[d]]

\* Series.fillna(0)
FillNa(x) == [d \in DOMAIN x |-> IF IsNaN(x[d]) THEN Zero ELSE x[d]]

RECURSIVE CumProdAt(_, _)
CumProdAt(x, d) ==
  IF Before(DOMAIN x, d) = {} THEN Add(One, x[d])
  ELSE Mul(CumProdAt(x, MaxOf(Before(DOMAIN x, d))), Add(One, x[d]))

\* (1 + x).cumprod() - 1
CumulativeReturns(x) == [d \in DOMAIN x |-> Sub(CumProdAt(x, d), One)]

PortfolioReturnsPricesFirst(t) ==
  PctChangeSeries(MeanAxis1(t))

\* returns = close_prices.pct_change(); returns.mean(axis=1)
PortfolioReturns(t) ==
  MeanAxis1(PctChangeFrame(t))

\* calendar month of a model date: two dates to a month
Month(d) == (d + 1) \div 2

\* Series.resample('M').last(): one bin per month from the first to the
\* last month of the index, NaN for a month without rows
ResampleLast(x) ==
  IF DOMAIN x = {} THEN <<>>
  ELSE LET lo == Month(MinOf(DOMAIN x))
           hi == Month(MaxOf(DOMAIN x))
           In(m) == {d \in DOMAIN x : Month(d) = m}
       IN  [m \in lo..hi |-> IF In(m) = {} THEN NaN ELSE x[MaxOf(In(m))]]

\* Series.dropna()
DropNaSeries(x) == [d \in {e \in DOMAIN x : ~IsNaN(x[e])} |-> x[d]]

\* cum.resample('M').last().pct_change().dropna() * 100
MonthlyPct(x) ==
  LET m == DropNaSeries(PctChangeSeries(ResampleLast(x)))
  IN  [d \in DOMAIN m |-> Mul(m[d], Hundred)]

(* ---- the data provider (yf.download) ---- *)

\* What one download can give back for a date range: an exception, an empty
\* frame, or rows with a closing price for some of the dates in range.
Provider(start, end) ==
  LET range == {d \in Dates : start <= d /\ d <= end}
  IN  {[kind |-> "raise", Close |-> <<>>], [kind |-> "empty", Close |-> <<>>]}
      \cup {[kind |-> "ok", Close |-> f] :
              f \in UNION {[S -> Prices] : S \in (SUBSET range) \ {{}}}}

None == [Symbol |-> NoSymbol, Close |-> <<>>]

\* fetch_stock_data(symbol, ...) given the provider's answer r: the frame
\* (or None) it returns and the messages it shows
fetch_stock_data(symbol, r) ==
  IF r.kind = "raise"
    THEN [data |-> None, msgs |-> << <<"error_fetch", symbol>> >>]
  ELSE IF r.kind = "empty"
    THEN [data |-> None, msgs |-> << <<"warning_no_data", symbol>> >>]
  ELSE [data |-> [Symbol |-> symbol, Close |-> r.Close], msgs |-> <<>>]

\* portfolio_data.columns after the normalisation of lines 100-104, for the
\* two column layouts the provider produces
NormalizedColumns(layout) ==
  IF layout = "multi"
    THEN {"Date_", "Open_T", "High_T", "Low_T", "Close_T", "Volume_T", "Symbol_"}
    ELSE {"Date", "Open", "High", "Low", "Close", "Adj close", "Volume", "Symbol"}

required_columns == {"Date", "Symbol", "Close"}

HasDuplicates(list) ==
  \E a, b \in DOMAIN list :
     a # b /\ list[a].Symbol = list[b].Symbol
     /\ DOMAIN list[a].Close \cap DOMAIN list[b].Close # {}

ToFloat(close) == [d \in DOMAIN close |-> <<close[d], 1>>]

(* ---- state ---- *)

Init ==
  /\ pc = "start"
  /\ start_date \in Dates
  /\ end_date \in Dates
  /\ i = 1
  /\ portfolio_data_list = <<>>
  /\ columns = {}
  /\ close_prices = <<>>
  /\ returns = <<>>
  /\ portfolio_returns = <<>>
  /\ benchmark_data = None
  /\ benchmark_returns = <<>>
  /\ portfolio_cumulative_returns = <<>>
  /\ benchmark_cumulative_returns = <<>>
  /\ out = <<>>
  /\ fetched = <<>>

dataVars == <<close_prices, returns, portfolio_returns, benchmark_data,
              benchmark_returns, portfolio_cumulative_returns,
              benchmark_cumulative_returns>>

\* lines 58-60: the range check only shows a message
CheckDates ==
  /\ pc = "start"
  /\ out' = IF start_date > end_date
              THEN Append(out, <<"error_range", NoSymbol>>)
              ELSE out
  /\ pc' = "button"
  /\ UNCHANGED <<start_date, end_date, i, portfolio_data_list, columns,
                 dataVars, fetched>>

\* line 63: st.button; lines 68-78 set up the loop
Button ==
  /\ pc = "button"
  /\ \E pressed \in BOOLEAN : pc' = IF pressed THEN "fetch" ELSE "done"
  /\ i' = 1
  /\ portfolio_data_list' = <<>>
  /\ UNCHANGED <<start_date, end_date, columns, dataVars, out, fetched>>

FetchSymbolAbort ==
  /\ pc = "fetch"
  /\ i <= NumSymbols
  /\ \E r \in Provider(start_date, end_date) :
       LET res == fetch_stock_data(symbols_list[i], r) IN
       /\ fetched' = Append(fetched, <<symbols_list[i], r.kind>>)
       /\ out' = out \o res.msgs
       /\ portfolio_data_list' =
            IF res.data # None THEN Append(portfolio_data_list, res.data)
            ELSE portfolio_data_list
       /\ pc' = IF i = NumSymbols \/ res.data = None THEN "check" ELSE "fetch"
  /\ i' = i + 1
  /\ UNCHANGED <<start_date, end_date, columns, dataVars>>

\* lines 80-83: one iteration of the loop over symbols_list
FetchSymbol ==
  /\ pc = "fetch"
  /\ i <= NumSymbols
  /\ \E r \in Provider(start_date, end_date) :
       LET res == fetch_stock_data(symbols_list[i], r) IN
       /\ fetched' = Append(fetched, <<symbols_list[i], r.kind>>)
       /\ out' = out \o res.msgs
       /\ portfolio_data_list' =
            IF res.data # None THEN Append(portfolio_data_list, res.data)
            ELSE portfolio_data_list
  /\ i' = i + 1
  /\ pc' = IF i = NumSymbols THEN "check" ELSE "fetch"
  /\ UNCHANGED <<start_date, end_date, columns, dataVars>>

\* lines 86-108: the empty check, pd.concat and the column normalisation
CheckData ==
  /\ pc = "check"
  /\ IF portfolio_data_list = <<>>
       THEN /\ out' = Append(out, <<"error_no_portfolio_data", NoSymbol>>)
            /\ pc' = "done"
            /\ UNCHANGED columns
       ELSE /\ \E layout \in {"flat", "multi"} :
                 columns' = NormalizedColumns(layout)
            /\ pc' = "columns"
            /\ UNCHANGED out
  /\ UNCHANGED <<start_date, end_date, i, portfolio_data_list, dataVars, fetched>>

CheckColumnsSkipped ==
  /\ pc = "columns"
  /\ pc' = "pivot"
  /\ UNCHANGED <<start_date, end_date, i, portfolio_data_list, columns,
                 dataVars, fetched, out>>

\* lines 111-115
CheckColumns ==
  /\ pc = "columns"
  /\ IF ~(required_columns \subseteq columns)
       THEN /\ out' = Append(out, <<"error_missing_columns", NoSymbol>>)
            /\ pc' = "done"
       ELSE /\ pc' = "pivot"
            /\ UNCHANGED out
  /\ UNCHANGED <<start_date, end_date, i, portfolio_data_list, columns,
                 dataVars, fetched>>

\* lines 116-139
PivotClose ==
  /\ pc = "pivot"
  /\ out' = IF HasDuplicates(portfolio_data_list)
              THEN Append(out, <<"warning_duplicates", NoSymbol>>)
              ELSE out
  /\ close_prices' = Pivot(portfolio_data_list)
  /\ pc' = "clean"
  /\ UNCHANGED <<start_date, end_date, i, portfolio_data_list, columns,
                 returns, portfolio_returns, benchmark_data,
                 benchmark_returns, portfolio_cumulative_returns,
                 benchmark_cumulative_returns, fetched>>

\* lines 143-157
CleanAndReturns ==
  /\ pc = "clean"
  /\ close_prices' = DropNa(Ffill(close_prices))
  /\ returns' = PctChangeFrame(close_prices')
  /\ portfolio_returns' = PortfolioReturns(close_prices')
  /\ pc' = "benchmark"
  /\ UNCHANGED <<start_date, end_date, i, portfolio_data_list, columns,
                 benchmark_data, benchmark_returns,
                 portfolio_cumulative_returns, benchmark_cumulative_returns,
                 out, fetched>>

\* lines 160-162 and the else branch of lines 290-291
FetchBenchmark ==
  /\ pc = "benchmark"
  /\ \E r \in Provider(start_date, end_date) :
       LET res == fetch_stock_data(benchmark_symbol, r) IN
       /\ fetched' = Append(fetched, <<benchmark_symbol, r.kind>>)
       /\ IF res.data # None /\ DOMAIN res.data.Close # {}
            THEN /\ benchmark_data' = res.data
                 /\ pc' = "align"
                 /\ out' = out \o res.msgs
            ELSE /\ UNCHANGED benchmark_data
                 /\ pc' = "done"
                 /\ out' = (out \o res.msgs)
                             \o << <<"error_benchmark", benchmark_symbol>> >>
  /\ UNCHANGED <<start_date, end_date, i, portfolio_data_list, columns,
                 close_prices, returns, portfolio_returns, benchmark_returns,
                 portfolio_cumulative_returns, benchmark_cumulative_returns>>

AlignBenchmarkUnrestricted ==
  /\ pc = "align"
  /\ LET br == PctChangeSeries(ToFloat(benchmark_data.Close))
         combined_index == DOMAIN portfolio_returns \cap DOMAIN br
     IN  /\ portfolio_returns' = FillNa(Loc(portfolio_returns, combined_index))
         /\ benchmark_returns' = FillNa(br)
  /\ portfolio_cumulative_returns' = CumulativeReturns(portfolio_returns')
  /\ benchmark_cumulative_returns' = CumulativeReturns(benchmark_returns')
  /\ pc' = "chart"
  /\ UNCHANGED <<start_date, end_date, i, portfolio_data_list, columns,
                 close_prices, returns, benchmark_data, out, fetched>>

\* lines 163-194
Align ==
  /\ pc = "align"
  /\ LET br == PctChangeSeries(ToFloat(benchmark_data.Close))
         combined_index == DOMAIN portfolio_returns \cap DOMAIN br
     IN  /\ portfolio_returns' = FillNa(Loc(portfolio_returns, combined_index))
         /\ benchmark_returns' = FillNa(Loc(br, combined_index))
  /\ portfolio_cumulative_returns' = CumulativeReturns(portfolio_returns')
  /\ benchmark_cumulative_returns' = CumulativeReturns(benchmark_returns')
  /\ pc' = "chart"
  /\ UNCHANGED <<start_date, end_date, i, portfolio_data_list, columns,
                 close_prices, returns, benchmark_data, out, fetched>>

\* lines 197-263: the cumulative-return chart and the candlestick chart
ShowCharts ==
  /\ pc = "chart"
  /\ out' = out \o << <<"chart_cumulative", NoSymbol>>,
                      <<"chart_candlestick", benchmark_symbol>> >>
  /\ pc' = "totals"
  /\ UNCHANGED <<start_date, end_date, i, portfolio_data_list, columns,
                 dataVars, fetched>>

\* lines 266-271; iloc[-1] of an empty series raises, caught at line 292
Totals ==
  /\ pc = "totals"
  /\ IF DOMAIN portfolio_cumulative_returns = {}
          \/ DOMAIN benchmark_cumulative_returns = {}
       THEN /\ out' = Append(out, <<"error_processing", NoSymbol>>)
            /\ pc' = "done"
       ELSE /\ out' = out \o << <<"total_return", NoSymbol>>,
                                <<"total_return", benchmark_symbol>> >>
            /\ pc' = "monthly"
  /\ UNCHANGED <<start_date, end_date, i, portfolio_data_list, columns,
                 dataVars, fetched>>

\* lines 274-289; pd.DataFrame of columns of unequal length raises, caught
\* at line 292
Monthly ==
  /\ pc = "monthly"
  /\ LET portfolio_monthly == MonthlyPct(portfolio_cumulative_returns)
         benchmark_monthly == MonthlyPct(benchmark_cumulative_returns)
     IN  out' = IF Cardinality(DOMAIN portfolio_monthly)
                     # Cardinality(DOMAIN benchmark_monthly)
                  THEN Append(out, <<"error_processing", NoSymbol>>)
                  ELSE Append(out, <<"monthly_table", NoSymbol>>)
  /\ pc' = "done"
  /\ UNCHANGED <<start_date, end_date, i, portfolio_data_list, columns,
                 dataVars, fetched>>

\* Streamlit runs the script again from the top on the next interaction
Rerun ==
  /\ pc = "done"
  /\ pc' = "start"
  /\ start_date' \in Dates
  /\ end_date' \in Dates
  /\ i' = 1
  /\ portfolio_data_list' = <<>>
  /\ columns' = {}
  /\ close_prices' = <<>>
  /\ returns' = <<>>
  /\ portfolio_returns' = <<>>
  /\ benchmark_data' = None
  /\ benchmark_returns' = <<>>
  /\ portfolio_cumulative_returns' = <<>>
  /\ benchmark_cumulative_returns' = <<>>
  /\ out' = <<>>
  /\ fetched' = <<>>

Next ==
  \/ CheckDates
  \/ Button
  \/ FetchSymbol
  \/ CheckData
  \/ CheckColumns
  \/ PivotClose
  \/ CleanAndReturns
  \/ FetchBenchmark
  \/ Align
  \/ ShowCharts
  \/ Totals
  \/ Monthly
  \/ Rerun

Spec == Init /\ [][Next]_vars

(* ---- vocabulary of the properties ---- *)

Has(kind) == \E k \in DOMAIN out : out[k][1] = kind

BenchmarkFetched == \E k \in DOMAIN fetched : fetched[k][1] = benchmark_symbol

\* the cumulative-return series of this run have been computed
Cumulated ==
  \/ pc \in {"chart", "totals", "monthly"}
  \/ pc = "done" /\ Has("chart_cumulative")

\* the cleaned price table has been handed to the return computation
Cleaned == pc = "benchmark" \/ BenchmarkFetched

IsConstant(close) == \A d, e \in DOMAIN close : close[d] = close[e]

AtOrBefore(S, d) == {e \in S : e <= d}

(* ---- C1 ---- *)

\* C1: both cumulative-return series are exactly 0 at their first date.
C1_FirstValueZero ==
  (Cumulated /\ DOMAIN portfolio_cumulative_returns # {}) =>
     /\ portfolio_cumulative_returns[MinOf(DOMAIN portfolio_cumulative_returns)] = Zero
     /\ benchmark_cumulative_returns[MinOf(DOMAIN benchmark_cumulative_returns)] = Zero

(* ---- C2 ---- *)

MeanPrice(d) ==
  Div(SumOver(close_prices[d], DOMAIN close_prices[d]),
      <<Cardinality(DOMAIN close_prices[d]), 1>>)

RECURSIVE RatioSum(_, _, _)
RatioSum(d, prev, S) ==
  IF S = {} THEN Zero
  ELSE LET s == CHOOSE e \in S : TRUE
       IN  Add(Div(close_prices[d][s], close_prices[prev][s]),
               RatioSum(d, prev, S \ {s}))

MeanGrowth(d) ==
  IF Before(DOMAIN close_prices, d) = {} THEN One
  ELSE Div(RatioSum(d, MaxOf(Before(DOMAIN close_prices, d)), DOMAIN close_prices[d]),
           <<Cardinality(DOMAIN close_prices[d]), 1>>)

RECURSIVE GrowthProduct(_)
GrowthProduct(S) ==
  IF S = {} THEN One
  ELSE LET d == CHOOSE e \in S : TRUE
       IN  Mul(MeanGrowth(d), GrowthProduct(S \ {d}))

ExampleTable ==
  [d \in 1..3 |-> [s \in 1..2 |->
     IF s = 1 THEN <<(<<100, 110, 121>>)[d], 1>> ELSE <<50, 1>>]]

ExampleCumulative ==
  CumulativeReturns(FillNa(PortfolioReturns(DropNa(Ffill(ExampleTable)))))

C3_NoLoadOnInvalidRange ==
  start_date > end_date =>
     /\ fetched = <<>>
     /\ ~Cumulated

(* ---- C4 ---- *)

\* C4: the benchmark's cumulative return at every aligned date is
\* P[date] / P[first aligned date] - 1.
C4_BenchmarkRatio ==
  Cumulated =>
     \A d \in DOMAIN benchmark_cumulative_returns :
        benchmark_cumulative_returns[d] =
          Sub(Div(<<benchmark_data.Close[d], 1>>,
                  <<benchmark_data.Close[MinOf(DOMAIN benchmark_cumulative_returns)], 1>>),
              One)

(* ---- C5 ---- *)

BasketFetches == {k \in DOMAIN fetched : fetched[k][1] # benchmark_symbol}

Loaded(sym) == \E k \in DOMAIN portfolio_data_list : portfolio_data_list[k].Symbol = sym

Named(sym) ==
  \E k \in DOMAIN out : out[k][2] = sym /\ out[k][1] \in {"warning_no_data", "error_fetch"}

\* C5: a failed basket fetch is reported by name and excluded, every symbol
\* of the list is still fetched, and the no-usable-data error ends the run
\* exactly when all of them failed, before any benchmark fetch or computation.
C5_FetchLoop ==
  /\ \A k \in BasketFetches :
        IF fetched[k][2] = "ok"
          THEN Loaded(fetched[k][1]) /\ ~Named(fetched[k][1])
          ELSE Named(fetched[k][1]) /\ ~Loaded(fetched[k][1])
  /\ pc = "fetch" => Len(fetched) = i - 1
  /\ (pc \notin {"start", "button", "fetch"} /\ fetched # <<>>) =>
        /\ Len(fetched) >= NumSymbols
        /\ \A k \in 1..NumSymbols : fetched[k][1] = symbols_list[k]
  /\ Has("error_no_portfolio_data") <=>
        /\ pc = "done"
        /\ Len(fetched) = NumSymbols
        /\ \A k \in DOMAIN fetched : fetched[k][2] # "ok"
  /\ Has("error_no_portfolio_data") =>
        /\ ~BenchmarkFetched
        /\ close_prices = <<>>
        /\ portfolio_returns = <<>>
        /\ portfolio_cumulative_returns = <<>>

C5_Witness ==
  /\ pc = "clean"
  /\ fetched[1][2] # "ok"
  /\ fetched[NumSymbols][2] = "ok"
  /\ Len(portfolio_data_list) < NumSymbols

(* ---- C6 ---- *)

\* C6: the cleaned table holds, for every symbol and row, the symbol's most
\* recent price at or before the row's date; its rows are the fetched dates
\* from which every symbol has a price at or before, and no cell is missing.
C6_NoGaps ==
  Cleaned =>
     /\ \A d \in Dates :
           d \in DOMAIN close_prices <=>
             /\ \E k \in DOMAIN portfolio_data_list : d \in DOMAIN portfolio_data_list[k].Close
             /\ \A k \in DOMAIN portfolio_data_list :
                   AtOrBefore(DOMAIN portfolio_data_list[k].Close, d) # {}
     /\ \A d \in DOMAIN close_prices :
           \A k \in DOMAIN portfolio_data_list :
              LET f == portfolio_data_list[k] IN
              /\ ~IsNaN(close_prices[d][f.Symbol])
              /\ AtOrBefore(DOMAIN f.Close, d) # {}
              /\ close_prices[d][f.Symbol] =
                   <<f.Close[MaxOf(AtOrBefore(DOMAIN f.Close, d))], 1>>

C6_Witness ==
  /\ pc = "benchmark"
  /\ \E d \in DOMAIN close_prices :
        \E k \in DOMAIN portfolio_data_list :
           d \notin DOMAIN portfolio_data_list[k].Close
  /\ \E k \in DOMAIN portfolio_data_list :
        \E d \in DOMAIN portfolio_data_list[k].Close : d \notin DOMAIN close_prices

(* ---- C7 ---- *)

\* C7: a run that reports a data-processing error has emitted no chart and
\* no total-return figure.
C7_Atomic ==
  Has("error_processing") =>
     /\ ~Has("chart_cumulative")
     /\ ~Has("chart_candlestick")
     /\ ~Has("total_return")

(* ---- C8 ---- *)

AllConstant ==
  /\ \A k \in DOMAIN portfolio_data_list : IsConstant(portfolio_data_list[k].Close)
  /\ IsConstant(benchmark_data.Close)

\* C8: constant fetched prices give cumulative returns that are 0 everywhere.
C8_ConstantZero ==
  (Cumulated /\ AllConstant) =>
     /\ \A d \in DOMAIN portfolio_cumulative_returns :
           portfolio_cumulative_returns[d] = Zero
     /\ \A d \in DOMAIN benchmark_cumulative_returns :
           benchmark_cumulative_returns[d] = Zero

C8_Witness ==
  /\ pc = "totals"
  /\ AllConstant
  /\ Cardinality(DOMAIN portfolio_cumulative_returns) >= 2
  /\ \E a, b \in DOMAIN portfolio_data_list :
        \E d \in DOMAIN portfolio_data_list[a].Close :
           \E e \in DOMAIN portfolio_data_list[b].Close :
              portfolio_data_list[a].Close[d] # portfolio_data_list[b].Close[e]

(* ---- C9 ---- *)

\* C9: the benchmark is fetched last, only with a loaded basket symbol and
\* the required columns; a failed benchmark fetch ends the run with the
\* benchmark error and without chart, totals or monthly table.
C9_BenchmarkGate ==
  /\ \A k \in DOMAIN fetched :
        fetched[k][1] = benchmark_symbol =>
          /\ k = NumSymbols + 1
          /\ k = Len(fetched)
          /\ portfolio_data_list # <<>>
          /\ required_columns \subseteq columns
  /\ \A k \in DOMAIN fetched :
        (fetched[k][1] = benchmark_symbol /\ fetched[k][2] # "ok") =>
          /\ pc = "done"
          /\ out[Len(out)] = <<"error_benchmark", benchmark_symbol>>
          /\ ~Has("chart_cumulative")
          /\ ~Has("chart_candlestick")
          /\ ~Has("total_return")
          /\ ~Has("monthly_table")
          /\ portfolio_cumulative_returns = <<>>

C9_Witness ==
  /\ pc = "done"
  /\ BenchmarkFetched
  /\ fetched[Len(fetched)][2] = "empty"
  /\ Has("error_benchmark")

(* ---- C10 ---- *)

\* C10: both cumulative-return series are indexed by exactly the dates the
\* cleaned basket table and the benchmark have in common.
C10_SameDates ==
  Cumulated =>
     /\ DOMAIN portfolio_cumulative_returns = DOMAIN benchmark_cumulative_returns
     /\ DOMAIN portfolio_cumulative_returns =
          DOMAIN close_prices \cap DOMAIN benchmark_data.Close

C10_Witness ==
  /\ pc = "chart"
  /\ DOMAIN portfolio_cumulative_returns # {}
  /\ DOMAIN close_prices \ DOMAIN benchmark_data.Close # {}
  /\ DOMAIN benchmark_data.Close \ DOMAIN close_prices # {}
====
